---- MODULE Spec2Model ----
(***************************************************************************)
(* Model of CreateRetryer (packages/query-core/retryer.ts): a cancellable, *)
(* pausable retry engine.  One behaviour is the life of one retryer.       *)
(*                                                                         *)
(* Granularity: one action per promise reaction (job) of the retryer's     *)
(* chain and one action per call of a control operation.  JavaScript runs  *)
(* each job to completion, so a job is atomic; control operations and gate *)
(* changes may happen between any two jobs (they can be issued by user     *)
(* code in the same synchronous block, in a user microtask or in a         *)
(* callback).                                                              *)
(***************************************************************************)
EXTENDS Integers, Sequences, FiniteSets, TLC

\* ------------------------------------------------------------------ bounds
MaxRetry == 1            \* numeric retry policies are 0..MaxRetry (and the default)
MaxAttempts == 4         \* cap on invocations of config.fn (retry: true never stops)
MaxPauseCalls == 2       \* cap on onPause invocations inside one pause window
MaxFailureCount == 10    \* failure counts the delay policy is applied to

\* ------------------------------------------------------- program constants
DefaultRetry == 3
BaseDelay == 1000
MaxDelay == 30000

\* ------------------------------------------------------------------- types
Tri == {"undefined", "true", "false"}

NetworkModes == {"undefined", "online", "always", "offlineFirst"}

\* document.visibilityState; isFocused tells "hidden" from the rest
VisibilityStates == {"visible", "hidden"}

\* cancelOptions?: CancelOptions  (given = FALSE is a call without argument)
NoOptions == [given |-> FALSE, revert |-> "undefined", silent |-> "undefined"]

CancelOptions ==
    {NoOptions,
     [given |-> TRUE, revert |-> "true", silent |-> "false"],
     [given |-> TRUE, revert |-> "false", silent |-> "undefined"],
     [given |-> TRUE, revert |-> "undefined", silent |-> "true"]}

\* config.retry: undefined | boolean | number | function
RetryValues ==
    {[kind |-> "undefined", val |-> 0], [kind |-> "function", val |-> 0]}
        \cup [kind : {"boolean"}, val : {0, 1}]
        \cup [kind : {"number"}, val : 0..MaxRetry]

\* config.retryDelay: undefined | number | function
RetryDelayValues ==
    {[kind |-> "undefined", val |-> 0], [kind |-> "number", val |-> 0],
     [kind |-> "function", val |-> 0]}

\* results of a user supplied retryDelay function
FnDelays == {50}

\* values flowing through the promise: the data of attempt k, the error of
\* attempt k, or a CancelledError
Data(k) == [type |-> "data", attempt |-> k, revert |-> "-", silent |-> "-"]

WorkError(k) == [type |-> "error", attempt |-> k, revert |-> "-", silent |-> "-"]

NoValue == [type |-> "none", attempt |-> 0, revert |-> "-", silent |-> "-"]

\* a constructor that copies revert into both fields
CancelledError_swap(options) ==
    [type |-> "cancelled", attempt |-> 0,
     revert |-> IF options.given THEN options.revert ELSE "undefined",
     silent |-> IF options.given THEN options.revert ELSE "undefined"]

CancelledError(options) ==
    [type |-> "cancelled", attempt |-> 0,
     revert |-> IF options.given THEN options.revert ELSE "undefined",
     silent |-> IF options.given THEN options.silent ELSE "undefined"]

isCancelledError(value) == value.type = "cancelled"

Pending == [status |-> "pending", value |-> NoValue]

ControlOps == {"cancel", "continue", "cancelRetry", "continueRetry"}

VARIABLES
    networkMode,       \* config.networkMode
    retry,             \* config.retry
    retryDelay,        \* config.retryDelay
    visibilityState,   \* document.visibilityState
    online,            \* what onlineManager.isOnline() returns
    isRetryCancelled,
    failureCount,
    isResolved,
    continueFn,        \* TRUE when continueFn is defined
    pc,                \* position of the retryer's promise chain
    error,             \* the error captured by the pending failure handler
    delay,             \* the delay handed to sleep()
    promise,           \* state of the returned promise
    resolveCalls,      \* calls of promiseResolve
    rejectCalls,       \* calls of promiseReject
    onSuccessLog,      \* arguments of config.onSuccess, in order
    onErrorLog,        \* arguments of config.onError, in order
    onFailLog,         \* failureCount arguments of config.onFail, in order
    abortCalls,        \* calls of config.abort
    attempts,          \* calls of config.fn
    winPauseCalls,     \* calls of config.onPause since the last pause()
    winContinueCalls,  \* calls of config.onContinue since the last pause()
    last,              \* the control operation the last step called, or "none"
    prevFlag           \* isRetryCancelled before the last step

config == <<networkMode, retry, retryDelay>>

gates == <<visibilityState, online>>

settleVars ==
    <<isResolved, onSuccessLog, onErrorLog, promise, resolveCalls,
      rejectCalls, pc, winPauseCalls>>

vars ==
    <<networkMode, retry, retryDelay, visibilityState, online,
      isRetryCancelled, failureCount, isResolved, continueFn, pc, error,
      delay, promise, resolveCalls, rejectCalls, onSuccessLog, onErrorLog,
      onFailLog, abortCalls, attempts, winPauseCalls,
      winContinueCalls, last, prevFlag>>

\* ------------------------------------------------------------ pure helpers
Min(a, b) == IF a < b THEN a ELSE b

\* the default delay computed from the failure count after its increment
defaultRetryDelay_afterIncrement(n) == Min(BaseDelay * 2 ^ (n + 1), MaxDelay)

defaultRetryDelay(n) == Min(BaseDelay * 2 ^ n, MaxDelay)

isFocused == visibilityState \in {"undefined", "visible", "prerender"}

\* canFetch without the default: an undefined mode is not "online"
canFetch_noDefault(mode) == IF mode = "online" THEN online ELSE TRUE

canFetch(mode) ==
    IF (IF mode = "undefined" THEN "online" ELSE mode) = "online"
    THEN online
    ELSE TRUE

\* shouldPause with the network test inverted
shouldPause_notAlways == ~isFocused \/ (networkMode # "always" /\ ~online)

shouldPause == ~isFocused \/ (networkMode = "always" /\ ~online)

\* shouldRetry with an off-by-one comparison
shouldRetry_offByOne(fnResult) ==
    LET r == IF retry.kind = "undefined"
             THEN [kind |-> "number", val |-> DefaultRetry]
             ELSE retry
    IN  \/ (r.kind = "boolean" /\ r.val = 1)
        \/ (r.kind = "number" /\ failureCount <= r.val)
        \/ (r.kind = "function" /\ fnResult)

\* const retry = config.retry ?? 3; shouldRetry = ...
shouldRetry(fnResult) ==
    LET r == IF retry.kind = "undefined"
             THEN [kind |-> "number", val |-> DefaultRetry]
             ELSE retry
    IN  \/ (r.kind = "boolean" /\ r.val = 1)
        \/ (r.kind = "number" /\ failureCount < r.val)
        \/ (r.kind = "function" /\ fnResult)

\* const delay = typeof retryDelay === "function" ? retryDelay(...) : retryDelay
computeDelay(fnDelay) ==
    IF retryDelay.kind = "undefined" THEN defaultRetryDelay(failureCount)
    ELSE IF retryDelay.kind = "function" THEN fnDelay
    ELSE retryDelay.val

\* continueResolve(value): resolving the pause promise queues its reaction;
\* resolving it a second time does nothing
continueResolve(p) ==
    IF p = "pausedStart" THEN "cleanupStart"
    ELSE IF p = "pausedRetry" THEN "cleanupRetry"
    ELSE p

\* a continuation that resolves without testing shouldPause()
callContinueFn_noTest(res, p, n) ==
    IF ~continueFn THEN [pc |-> p, onPause |-> n]
    ELSE [pc |-> continueResolve(p), onPause |-> n]

\* continueFn?.() called when the resolved flag is res and the chain is at p,
\* after n onPause calls in this window
callContinueFn(res, p, n) ==
    IF ~continueFn THEN [pc |-> p, onPause |-> n]
    ELSE IF res \/ ~shouldPause THEN [pc |-> continueResolve(p), onPause |-> n]
    ELSE [pc |-> p, onPause |-> n + 1]

\* ----------------------------------------------------------- settlement
\* resolve that notifies before it tests isResolved
resolve_notifyFirst(value, p) ==
    /\ onSuccessLog' = Append(onSuccessLog, value)
    /\ IF ~isResolved
       THEN LET c == callContinueFn(TRUE, p, winPauseCalls)
            IN  /\ isResolved' = TRUE
                /\ pc' = c.pc
                /\ winPauseCalls' = c.onPause
                /\ resolveCalls' = resolveCalls + 1
                /\ promise' = IF promise.status = "pending"
                              THEN [status |-> "fulfilled", value |-> value]
                              ELSE promise
                /\ UNCHANGED <<onErrorLog, rejectCalls>>
       ELSE /\ pc' = p
            /\ UNCHANGED <<isResolved, onErrorLog, promise, resolveCalls,
                           rejectCalls, winPauseCalls>>

\* resolve(value), called by a job that leaves the chain at p
resolve(value, p) ==
    IF ~isResolved
    THEN LET c == callContinueFn(TRUE, p, winPauseCalls)
         IN  /\ isResolved' = TRUE
             /\ onSuccessLog' = Append(onSuccessLog, value)
             /\ pc' = c.pc
             /\ winPauseCalls' = c.onPause
             /\ resolveCalls' = resolveCalls + 1
             /\ promise' = IF promise.status = "pending"
                           THEN [status |-> "fulfilled", value |-> value]
                           ELSE promise
             /\ UNCHANGED <<onErrorLog, rejectCalls>>
    ELSE /\ pc' = p
         /\ UNCHANGED <<isResolved, onSuccessLog, onErrorLog, promise,
                        resolveCalls, rejectCalls, winPauseCalls>>

\* reject without the isResolved test
reject_noGuard(value, p) ==
    LET c == callContinueFn(TRUE, p, winPauseCalls)
    IN  /\ isResolved' = TRUE
        /\ onErrorLog' = Append(onErrorLog, value)
        /\ pc' = c.pc
        /\ winPauseCalls' = c.onPause
        /\ rejectCalls' = rejectCalls + 1
        /\ promise' = IF promise.status = "pending"
                      THEN [status |-> "rejected", value |-> value]
                      ELSE promise
        /\ UNCHANGED <<onSuccessLog, resolveCalls>>

\* reject(value), called by a job or by cancel() that leaves the chain at p
reject(value, p) ==
    IF ~isResolved
    THEN LET c == callContinueFn(TRUE, p, winPauseCalls)
         IN  /\ isResolved' = TRUE
             /\ onErrorLog' = Append(onErrorLog, value)
             /\ pc' = c.pc
             /\ winPauseCalls' = c.onPause
             /\ rejectCalls' = rejectCalls + 1
             /\ promise' = IF promise.status = "pending"
                           THEN [status |-> "rejected", value |-> value]
                           ELSE promise
             /\ UNCHANGED <<onSuccessLog, resolveCalls>>
    ELSE /\ pc' = p
         /\ UNCHANGED <<isResolved, onSuccessLog, onErrorLog, promise,
                        resolveCalls, rejectCalls, winPauseCalls>>

\* ------------------------------------------------------------------ Init
\* the state CreateRetryer returns in, for a config drawn from the given sets
Setup(retries, retryDelays) ==
    /\ networkMode \in NetworkModes
    /\ retry \in retries
    /\ retryDelay \in retryDelays
    /\ visibilityState \in VisibilityStates
    /\ online \in BOOLEAN
    /\ isRetryCancelled = FALSE
    /\ failureCount = 0
    /\ isResolved = FALSE
    /\ error = NoValue
    /\ delay = 0
    /\ promise = Pending
    /\ resolveCalls = 0
    /\ rejectCalls = 0
    /\ onSuccessLog = <<>>
    /\ onErrorLog = <<>>
    /\ onFailLog = <<>>
    /\ abortCalls = 0
    /\ winPauseCalls = 0
    /\ winContinueCalls = 0
    /\ last = "none"
    /\ prevFlag = FALSE
    \* if (canFetch(config.networkMode)) run() else pause().then(run)
    /\ IF canFetch(networkMode)
       THEN /\ pc = "fn"
            /\ attempts = 1
            /\ continueFn = FALSE
       ELSE /\ pc = "pausedStart"
            /\ attempts = 0
            /\ continueFn = TRUE

\* ---------------------------------------------------------- chain jobs
\* run() without the isResolved test
run_noGuard ==
    /\ attempts < MaxAttempts
    /\ attempts' = attempts + 1
    /\ pc' = "fn"

\* run() with the isResolved test inverted
run_inverted ==
    /\ attempts' = attempts
    /\ pc' = "done"

\* run(), called by a job; the cap on attempts bounds the model
run ==
    IF isResolved
    THEN /\ pc' = "done"
         /\ UNCHANGED attempts
    ELSE /\ attempts < MaxAttempts
         /\ attempts' = attempts + 1
         /\ pc' = "fn"

\* pause(), called by the job after sleep
pause(p) ==
    /\ continueFn' = TRUE
    /\ pc' = p
    /\ winPauseCalls' = 0
    /\ winContinueCalls' = 0

\* Promise.resolve(promiseOrValue).then(resolve)
FnSucceed ==
    /\ pc = "fn"
    /\ resolve(Data(attempts), "done")
    /\ last' = "none"
    /\ prevFlag' = isRetryCancelled
    /\ UNCHANGED <<config, gates, isRetryCancelled, failureCount, continueFn,
                   error, delay, onFailLog, abortCalls, attempts,
                   winContinueCalls>>

\* the failure handler counting the terminal failure as well
FnFail_countsTerminal ==
    /\ pc = "fn"
    /\ last' = "none"
    /\ prevFlag' = isRetryCancelled
    /\ \E fnResult \in BOOLEAN, fnDelay \in FnDelays :
         LET e == WorkError(attempts)
             d == computeDelay(fnDelay)
         IN  IF isResolved
             THEN /\ pc' = "done"
                  /\ UNCHANGED <<isResolved, onSuccessLog, onErrorLog,
                                 promise, resolveCalls, rejectCalls,
                                 winPauseCalls, failureCount, onFailLog,
                                 error, delay>>
             ELSE IF isRetryCancelled \/ ~shouldRetry(fnResult)
             THEN /\ reject(e, "done")
                  /\ failureCount' = failureCount + 1
                  /\ UNCHANGED <<onFailLog, error, delay>>
             ELSE /\ failureCount' = failureCount + 1
                  /\ onFailLog' = Append(onFailLog, failureCount + 1)
                  /\ error' = e
                  /\ delay' = d
                  /\ pc' = "sleep"
                  /\ UNCHANGED <<isResolved, onSuccessLog, onErrorLog,
                                 promise, resolveCalls, rejectCalls,
                                 winPauseCalls>>
    /\ UNCHANGED <<config, gates, isRetryCancelled, continueFn, abortCalls,
                   attempts, winContinueCalls>>

\* the failure handler deciding on the retry policy alone
FnFail_ignoresFlag ==
    /\ pc = "fn"
    /\ last' = "none"
    /\ prevFlag' = isRetryCancelled
    /\ \E fnResult \in BOOLEAN, fnDelay \in FnDelays :
         LET e == WorkError(attempts)
             d == computeDelay(fnDelay)
         IN  IF isResolved
             THEN /\ pc' = "done"
                  /\ UNCHANGED <<isResolved, onSuccessLog, onErrorLog,
                                 promise, resolveCalls, rejectCalls,
                                 winPauseCalls, failureCount, onFailLog,
                                 error, delay>>
             ELSE IF ~shouldRetry(fnResult)
             THEN /\ reject(e, "done")
                  /\ UNCHANGED <<failureCount, onFailLog, error, delay>>
             ELSE /\ failureCount' = failureCount + 1
                  /\ onFailLog' = Append(onFailLog, failureCount + 1)
                  /\ error' = e
                  /\ delay' = d
                  /\ pc' = "sleep"
                  /\ UNCHANGED <<isResolved, onSuccessLog, onErrorLog,
                                 promise, resolveCalls, rejectCalls,
                                 winPauseCalls>>
    /\ UNCHANGED <<config, gates, isRetryCancelled, continueFn, abortCalls,
                   attempts, winContinueCalls>>

\* .catch((error) => ...) up to the call of sleep(delay); a synchronous
\* throw of config.fn takes the same path through Promise.reject(error)
FnFail ==
    /\ pc = "fn"
    /\ last' = "none"
    /\ prevFlag' = isRetryCancelled
    /\ \E fnResult \in BOOLEAN, fnDelay \in FnDelays :
         LET e == WorkError(attempts)
             d == computeDelay(fnDelay)
         IN  IF isResolved
             THEN /\ pc' = "done"
                  /\ UNCHANGED <<isResolved, onSuccessLog, onErrorLog,
                                 promise, resolveCalls, rejectCalls,
                                 winPauseCalls, failureCount, onFailLog,
                                 error, delay>>
             ELSE IF isRetryCancelled \/ ~shouldRetry(fnResult)
             THEN /\ reject(e, "done")
                  /\ UNCHANGED <<failureCount, onFailLog, error, delay>>
             ELSE /\ failureCount' = failureCount + 1
                  /\ onFailLog' = Append(onFailLog, failureCount + 1)
                  /\ error' = e
                  /\ delay' = d
                  /\ pc' = "sleep"
                  /\ UNCHANGED <<isResolved, onSuccessLog, onErrorLog,
                                 promise, resolveCalls, rejectCalls,
                                 winPauseCalls>>
    /\ UNCHANGED <<config, gates, isRetryCancelled, continueFn, abortCalls,
                   attempts, winContinueCalls>>

\* the job after sleep calling pause() without returning its promise: the
\* chain goes on while the window is open
SleepElapsed_noReturn ==
    /\ pc = "sleep"
    /\ last' = "none"
    /\ prevFlag' = isRetryCancelled
    /\ pc' = "recheck"
    /\ IF shouldPause
       THEN /\ continueFn' = TRUE
            /\ winPauseCalls' = 0
            /\ winContinueCalls' = 0
       ELSE UNCHANGED <<continueFn, winPauseCalls, winContinueCalls>>
    /\ UNCHANGED <<config, gates, isRetryCancelled, failureCount, isResolved,
                   error, delay, promise, resolveCalls, rejectCalls,
                   onSuccessLog, onErrorLog, onFailLog, abortCalls, attempts>>

\* sleep(delay).then(() => { if (shouldPause()) return pause() })
SleepElapsed ==
    /\ pc = "sleep"
    /\ last' = "none"
    /\ prevFlag' = isRetryCancelled
    /\ IF shouldPause
       THEN pause("pausedRetry")
       ELSE /\ pc' = "recheck"
            /\ UNCHANGED <<continueFn, winPauseCalls,
                           winContinueCalls>>
    /\ UNCHANGED <<config, gates, isRetryCancelled, failureCount, isResolved,
                   error, delay, promise, resolveCalls, rejectCalls,
                   onSuccessLog, onErrorLog, onFailLog, abortCalls, attempts>>

\* the reaction of the pause promise without continueFn = undefined
PauseThen_noClear ==
    /\ pc \in {"cleanupStart", "cleanupRetry"}
    /\ last' = "none"
    /\ prevFlag' = isRetryCancelled
    /\ winContinueCalls' = IF isResolved THEN winContinueCalls
                           ELSE winContinueCalls + 1
    /\ pc' = IF pc = "cleanupStart" THEN "runStart" ELSE "recheck"
    /\ UNCHANGED <<config, gates, isRetryCancelled, failureCount, isResolved,
                   error, delay, promise, resolveCalls, rejectCalls,
                   onSuccessLog, onErrorLog, onFailLog, abortCalls, attempts,
                   winPauseCalls, continueFn>>

\* the reaction of the pause promise:
\* .then(() => { continueFn = undefined; if (!isResolved) onContinue() })
PauseThen ==
    /\ pc \in {"cleanupStart", "cleanupRetry"}
    /\ last' = "none"
    /\ prevFlag' = isRetryCancelled
    /\ continueFn' = FALSE
    /\ winContinueCalls' = IF isResolved THEN winContinueCalls
                           ELSE winContinueCalls + 1
    /\ pc' = IF pc = "cleanupStart" THEN "runStart" ELSE "recheck"
    /\ UNCHANGED <<config, gates, isRetryCancelled, failureCount, isResolved,
                   error, delay, promise, resolveCalls, rejectCalls,
                   onSuccessLog, onErrorLog, onFailLog, abortCalls, attempts,
                   winPauseCalls>>

\* the job after the pause without the second test of isRetryCancelled
Recheck_noTest ==
    /\ pc = "recheck"
    /\ last' = "none"
    /\ prevFlag' = isRetryCancelled
    /\ run
    /\ UNCHANGED <<config, gates, isRetryCancelled, failureCount, isResolved,
                   continueFn, error, delay, promise, resolveCalls,
                   rejectCalls, onSuccessLog, onErrorLog, onFailLog,
                   abortCalls, winPauseCalls, winContinueCalls>>

\* .then(() => { if (isRetryCancelled) reject(error) else run() })
Recheck ==
    /\ pc = "recheck"
    /\ last' = "none"
    /\ prevFlag' = isRetryCancelled
    /\ IF isRetryCancelled
       THEN /\ reject(error, "done")
            /\ UNCHANGED attempts
       ELSE /\ run
            /\ UNCHANGED <<isResolved, onSuccessLog, onErrorLog, promise,
                           resolveCalls, rejectCalls, winPauseCalls>>
    /\ UNCHANGED <<config, gates, isRetryCancelled, failureCount, continueFn,
                   error, delay, onFailLog, abortCalls, winContinueCalls>>

\* pause().then(run) of the startup
RunStart ==
    /\ pc = "runStart"
    /\ last' = "none"
    /\ prevFlag' = isRetryCancelled
    /\ run
    /\ UNCHANGED <<config, gates, isRetryCancelled, failureCount, isResolved,
                   continueFn, error, delay, promise, resolveCalls,
                   rejectCalls, onSuccessLog, onErrorLog, onFailLog,
                   abortCalls, winPauseCalls, winContinueCalls>>

\* ------------------------------------------------------ control operations
\* cancel without the isResolved test
cancel_noGuard(cancelOptions) ==
    /\ reject(CancelledError(cancelOptions), pc)
    /\ abortCalls' = abortCalls + 1

cancel(cancelOptions) ==
    IF ~isResolved
    THEN /\ reject(CancelledError(cancelOptions), pc)
         /\ abortCalls' = abortCalls + 1
    ELSE UNCHANGED <<settleVars, abortCalls>>

CancelWith(cancelOptions) ==
    /\ cancel(cancelOptions)
    /\ last' = "cancel"
    /\ prevFlag' = isRetryCancelled
    /\ UNCHANGED <<config, gates, isRetryCancelled, failureCount, continueFn,
                   error, delay, onFailLog, attempts, winContinueCalls>>

Cancel == \E cancelOptions \in CancelOptions : CancelWith(cancelOptions)

\* continue: () => { continueFn?.() }
Continue ==
    /\ continueFn /\ ~isResolved /\ shouldPause => winPauseCalls < MaxPauseCalls
    /\ LET c == callContinueFn(isResolved, pc, winPauseCalls)
       IN  /\ pc' = c.pc
           /\ winPauseCalls' = c.onPause
    /\ last' = "continue"
    /\ prevFlag' = isRetryCancelled
    /\ UNCHANGED <<config, gates, isRetryCancelled, failureCount, isResolved,
                   continueFn, error, delay, promise, resolveCalls,
                   rejectCalls, onSuccessLog, onErrorLog, onFailLog,
                   abortCalls, attempts, winContinueCalls>>

\* cancelRetry that also calls the abort hook
CancelRetry_abort ==
    /\ isRetryCancelled' = TRUE
    /\ abortCalls' = abortCalls + 1
    /\ last' = "cancelRetry"
    /\ prevFlag' = isRetryCancelled
    /\ UNCHANGED <<config, gates, failureCount, isResolved, continueFn, pc,
                   error, delay, promise, resolveCalls, rejectCalls,
                   onSuccessLog, onErrorLog, onFailLog, attempts,
                   winPauseCalls, winContinueCalls>>

CancelRetry ==
    /\ isRetryCancelled' = TRUE
    /\ last' = "cancelRetry"
    /\ prevFlag' = isRetryCancelled
    /\ UNCHANGED <<config, gates, failureCount, isResolved, continueFn, pc,
                   error, delay, promise, resolveCalls, rejectCalls,
                   onSuccessLog, onErrorLog, onFailLog, abortCalls, attempts,
                   winPauseCalls, winContinueCalls>>

ContinueRetry ==
    /\ isRetryCancelled' = FALSE
    /\ last' = "continueRetry"
    /\ prevFlag' = isRetryCancelled
    /\ UNCHANGED <<config, gates, failureCount, isResolved, continueFn, pc,
                   error, delay, promise, resolveCalls, rejectCalls,
                   onSuccessLog, onErrorLog, onFailLog, abortCalls, attempts,
                   winPauseCalls, winContinueCalls>>

\* ------------------------------------------------------------ environment
SetOnline ==
    /\ online' = ~online
    /\ last' = "none"
    /\ prevFlag' = isRetryCancelled
    /\ UNCHANGED <<config, visibilityState, isRetryCancelled, failureCount,
                   isResolved, continueFn, pc, error, delay, promise,
                   resolveCalls, rejectCalls, onSuccessLog, onErrorLog,
                   onFailLog, abortCalls, attempts, winPauseCalls, winContinueCalls>>

SetVisibility ==
    /\ \E v \in VisibilityStates \ {visibilityState} : visibilityState' = v
    /\ last' = "none"
    /\ prevFlag' = isRetryCancelled
    /\ UNCHANGED <<config, online, isRetryCancelled, failureCount,
                   isResolved, continueFn, pc, error, delay, promise,
                   resolveCalls, rejectCalls, onSuccessLog, onErrorLog,
                   onFailLog, abortCalls, attempts, winPauseCalls, winContinueCalls>>

Next ==
    \/ FnFail
    \/ FnSucceed
    \/ SleepElapsed
    \/ PauseThen
    \/ Recheck
    \/ RunStart
    \/ Cancel
    \/ Continue
    \/ CancelRetry
    \/ ContinueRetry
    \/ SetOnline
    \/ SetVisibility

Init == Setup(RetryValues, {[kind |-> "undefined", val |-> 0]})

Spec == Init /\ [][Next]_vars

\* the event loop runs every queued job, every call of config.fn completes
\* and every timer fires; the callers of the control operations and the
\* gates owe nothing
Fairness ==
    /\ WF_vars(FnFail \/ FnSucceed)
    /\ WF_vars(SleepElapsed)
    /\ WF_vars(PauseThen)
    /\ WF_vars(Recheck)
    /\ WF_vars(RunStart)

SpecLive == Init /\ [][Next]_vars /\ Fairness

\* the retryer left alone: no control operation is ever called
NextNoControl ==
    \/ FnFail
    \/ FnSucceed
    \/ SleepElapsed
    \/ Recheck
    \/ SetOnline
    \/ SetVisibility

SpecNoControl == Init /\ [][NextNoControl]_vars

\* a retryer that retries without end, met while attempt n + 1 is in flight
\* after n failures and no pause, for every delay policy
InitDelay ==
    /\ networkMode \in NetworkModes
    /\ retry \in {[kind |-> "boolean", val |-> 1], [kind |-> "function", val |-> 0]}
    /\ retryDelay \in RetryDelayValues
    /\ visibilityState \in VisibilityStates
    /\ online \in BOOLEAN
    /\ failureCount \in 0..MaxFailureCount
    /\ attempts = failureCount + 1
    /\ onFailLog = [i \in 1..failureCount |-> i]
    /\ error = IF failureCount = 0 THEN NoValue ELSE WorkError(failureCount)
    /\ delay = IF failureCount = 0 THEN 0
               ELSE IF retryDelay.kind = "undefined"
                    THEN defaultRetryDelay(failureCount - 1)
               ELSE IF retryDelay.kind = "function"
                    THEN CHOOSE d \in FnDelays : TRUE
               ELSE retryDelay.val
    /\ pc = "fn"
    /\ continueFn = FALSE
    /\ isRetryCancelled = FALSE
    /\ isResolved = FALSE
    /\ promise = Pending
    /\ resolveCalls = 0
    /\ rejectCalls = 0
    /\ onSuccessLog = <<>>
    /\ onErrorLog = <<>>
    /\ abortCalls = 0
    /\ winPauseCalls = 0
    /\ winContinueCalls = 0
    /\ last = "none"
    /\ prevFlag = FALSE

SpecDelay == InitDelay /\ [][NextNoControl]_vars

TypeOK ==
    /\ pc \in {"fn", "sleep", "pausedStart", "pausedRetry", "cleanupStart",
               "cleanupRetry", "runStart", "recheck", "done"}
    /\ attempts \in 0..MaxAttempts
    /\ continueFn \in BOOLEAN
    /\ continueFn => pc \in {"pausedStart", "pausedRetry", "cleanupStart",
                             "cleanupRetry"}

\* ------------------------------------------------------------------ claims
Paused == {"pausedStart", "pausedRetry"}

Closing == {"cleanupStart", "cleanupRetry"}

\* C1: the future is settled at most once: promiseResolve and promiseReject
\* are called at most once in total, a settled promise never changes, and
\* isResolved goes from false to true at most once and never back.
C1_SettledAtMostOnce ==
    /\ resolveCalls + rejectCalls <= 1
    /\ [][/\ resolveCalls' + rejectCalls' <= 1
          /\ (promise.status # "pending" => promise' = promise)
          /\ (isResolved => isResolved')
          /\ (isResolved' <=> promise'.status # "pending")]_vars

\* a cancelled retryer whose chain has run to its end afterwards: a late
\* completion path met the settlement gate
C1_Witness ==
    /\ promise.status = "rejected"
    /\ isCancelledError(promise.value)
    /\ pc = "done"
    /\ isRetryCancelled
    /\ failureCount >= 1

\* C2: onSuccess and onError are invoked at most once in total, never both,
\* and once the future has settled the one that fired matches the outcome
\* and received the value the future settled with.
C2_OneTerminalNotification ==
    /\ Len(onSuccessLog) + Len(onErrorLog) <= 1
    /\ promise.status = "pending" => onSuccessLog = <<>> /\ onErrorLog = <<>>
    /\ promise.status = "fulfilled" =>
          onSuccessLog = <<promise.value>> /\ onErrorLog = <<>>
    /\ promise.status = "rejected" =>
          onErrorLog = <<promise.value>> /\ onSuccessLog = <<>>

\* success after a retry and a pause cycle
C2_Witness ==
    /\ promise.status = "fulfilled"
    /\ onSuccessLog = <<Data(attempts)>>
    /\ attempts >= 2
    /\ winContinueCalls = 1

\* C3: cancel(options) on an unsettled retryer rejects the future at once
\* with a CancelledError carrying the revert and silent of options and calls
\* abort once; no later step changes that outcome or calls abort again.
C3_CancelIsTerminal ==
    [][/\ \A o \in CancelOptions :
            (CancelWith(o) /\ ~isResolved) =>
                /\ promise'.status = "rejected"
                /\ promise'.value.type = "cancelled"
                /\ promise'.value.revert = o.revert
                /\ promise'.value.silent = o.silent
                /\ abortCalls' = abortCalls + 1
       /\ isCancelledError(promise'.value) => abortCalls' = 1
       /\ isCancelledError(promise.value) =>
            promise' = promise /\ abortCalls' = abortCalls]_vars

\* cancelled with {revert: true, silent: false}, then the chain ran to its
\* end and cancel() was called once more
C3_Witness ==
    /\ promise.status = "rejected"
    /\ isCancelledError(promise.value)
    /\ promise.value.revert = "true"
    /\ promise.value.silent = "false"
    /\ abortCalls = 1
    /\ pc = "done"
    /\ last = "cancel"

\* the numeric retry policy in force, or -1 when the policy is not numeric
RetryNumber ==
    IF retry.kind = "undefined" THEN 3
    ELSE IF retry.kind = "number" THEN retry.val
    ELSE IF retry.kind = "boolean" /\ retry.val = 0 THEN 0
    ELSE -1

\* C4: with numeric retry n (3 by default, 0 for false), no pause and no
\* control operation, a unit of work that always fails is attempted exactly
\* n + 1 times, onFail receives 1, 2, ..., n in order and the future rejects
\* with the error of attempt n + 1.  (Checked under SpecNoControl.)
C4_NumericRetry ==
    RetryNumber >= 0 =>
        /\ attempts <= RetryNumber + 1
        /\ Len(onFailLog) <= RetryNumber
        /\ \A i \in 1..Len(onFailLog) : onFailLog[i] = i
        /\ promise.status = "rejected" =>
              /\ attempts = RetryNumber + 1
              /\ Len(onFailLog) = RetryNumber
              /\ promise.value = WorkError(RetryNumber + 1)

\* the default policy exhausted: four attempts, onFail(1), onFail(2), onFail(3)
C4_Witness ==
    /\ retry.kind = "undefined"
    /\ promise.status = "rejected"
    /\ promise.value = WorkError(4)
    /\ attempts = 4
    /\ onFailLog = <<1, 2, 3>>

\* C5 as stated: whenever the retryer re-checks isRetryCancelled after the
\* k-th failure and finds it set, attempt k + 1 does not start and the
\* future is rejected with the error of attempt k.
C5_Original ==
    [][(pc = "recheck" /\ pc' # "recheck" /\ isRetryCancelled) =>
          /\ attempts' = attempts
          /\ promise' = [status |-> "rejected", value |-> WorkError(attempts)]]_vars

\* C5 amended: the same, with the rejection by the error of attempt k
\* promised only when cancel() has not settled the retryer before the
\* re-check; attempt k + 1 does not start in either case.
C5_CancelRetryKeepsError ==
    [][(pc = "recheck" /\ pc' # "recheck" /\ isRetryCancelled) =>
          /\ attempts' = attempts
          /\ pc' = "done"
          /\ ~isResolved =>
                /\ promise' = [status |-> "rejected",
                                value |-> WorkError(attempts)]
                /\ onErrorLog' = <<WorkError(attempts)>>]_vars

\* rejected with the error of the second attempt after a pause window,
\* with retries that the policy would still have allowed
C5_Witness ==
    /\ retry = [kind |-> "boolean", val |-> 1]
    /\ promise = [status |-> "rejected", value |-> WorkError(2)]
    /\ attempts = 2
    /\ failureCount = 2
    /\ winContinueCalls = 1
    /\ isRetryCancelled
    /\ pc = "done"

\* C6: when canFetch is false at construction (mode "online" or undefined,
\* offline) the unit of work is not invoked; the startup pause is left only
\* by a continue() made while the online gate or the attention gate permits
\* progress, or by settlement; no attempt is made before that, and a
\* retryer settled before its first attempt never makes one.
C6_StartupPause ==
    /\ (networkMode \in {"online", "undefined"} /\ ~online) =>
          (pc = "pausedStart" /\ attempts = 0 /\ continueFn)
    /\ [][/\ (pc = "pausedStart" /\ pc' # "pausedStart") =>
               \/ isResolved'
               \/ last' = "continue" /\ (online \/ isFocused)
          /\ pc' \in {"pausedStart", "cleanupStart", "runStart"} =>
               attempts' = 0
          /\ (isResolved /\ attempts = 0) => attempts' = 0]_vars

\* the first attempt of a retryer that started paused, in flight after
\* continue() closed the startup window
C6_Witness ==
    /\ pc = "fn"
    /\ attempts = 1
    /\ failureCount = 0
    /\ winContinueCalls = 1
    /\ ~isResolved

\* C7: once settled, a call of cancel(), continue(), cancelRetry() or
\* continueRetry() leaves the outcome of the future unchanged, does not call
\* abort and does not call onSuccess or onError.
C7_SettledIsFinal ==
    [][(isResolved /\ last' \in ControlOps) =>
          /\ promise' = promise
          /\ abortCalls' = abortCalls
          /\ onSuccessLog' = onSuccessLog
          /\ onErrorLog' = onErrorLog
          /\ resolveCalls' = resolveCalls
          /\ rejectCalls' = rejectCalls]_vars

\* cancel() called on a retryer that had settled with the result of the work
C7_Witness ==
    /\ promise.status = "fulfilled"
    /\ last = "cancel"
    /\ abortCalls = 0
    /\ isRetryCancelled

\* the pause condition as C8 states it
PauseCondition == ~isFocused \/ (networkMode = "always" /\ ~online)

C9_ContinueOnOpenWindow ==
    [][/\ (pc \in Paused /\ last' = "continue") =>
            IF isResolved \/ ~shouldPause
            THEN /\ pc' \in Closing
                 /\ winPauseCalls' = winPauseCalls
            ELSE /\ pc' = pc
                 /\ continueFn'
                 /\ winPauseCalls' = winPauseCalls + 1
       /\ (pc \in Closing /\ pc' \notin Closing) =>
            /\ ~continueFn'
            /\ winContinueCalls' =
                  winContinueCalls + (IF isResolved THEN 0 ELSE 1)
       /\ winContinueCalls' <= 1
       /\ pc \in Paused => (attempts' = attempts /\ continueFn)]_vars

\* continue() called twice on a window that stays open
C9_Witness ==
    /\ pc \in Paused
    /\ continueFn
    /\ winPauseCalls >= 2
    /\ last = "continue"

\* C10: pause() stores a continuation and calls onPause on entry, so an open
\* window has seen onPause and every onContinue follows an onPause of the
\* same window.
C10_OnPauseOnEntry ==
    /\ pc \in Paused => (continueFn /\ winPauseCalls >= 1)
    /\ winContinueCalls >= 1 => winPauseCalls >= 1

\* C11: under the default delay policy the failure handler hands sleep()
\* min(1000 * 2^n, 30000) for the failure count n it reads before the
\* increment: 1000 for 0, 16000 for 4, 30000 for 10, never more than 30000
\* and never less than for a smaller count.  (Checked under SpecDelay.)
C11_DefaultDelay ==
    [][(pc = "fn" /\ pc' = "sleep" /\ retryDelay.kind = "undefined") =>
          LET n == failureCount
          IN  /\ failureCount' = n + 1
              /\ delay' = IF n >= 5 THEN 30000 ELSE 1000 * 2 ^ n
              /\ n = 0 => delay' = 1000
              /\ n = 4 => delay' = 16000
              /\ n = 10 => delay' = 30000
              /\ delay' <= 30000
              /\ \A m \in 0..n : defaultRetryDelay(m) <= delay'
              /\ onFailLog' = Append(onFailLog, n + 1)]_vars

\* the wait before the fifth retry and the wait before the eleventh
C11_Witness ==
    /\ pc = "sleep"
    /\ retryDelay.kind = "undefined"
    /\ \/ failureCount = 5 /\ delay = 16000
       \/ failureCount = 11 /\ delay = 30000

\* everything but isRetryCancelled and the record of the last step
toggleFrame ==
    <<config, gates, failureCount, isResolved, continueFn, pc, error, delay,
      promise, resolveCalls, rejectCalls, onSuccessLog, onErrorLog,
      onFailLog, abortCalls, attempts, winPauseCalls, winContinueCalls>>

\* cancelRetry() sets and continueRetry() clears isRetryCancelled, and
\* neither touches anything else
ToggleOnly ==
    /\ last' = "cancelRetry" => (isRetryCancelled' /\ UNCHANGED toggleFrame)
    /\ last' = "continueRetry" => (~isRetryCancelled' /\ UNCHANGED toggleFrame)

\* C12 as stated: the two operations only flip isRetryCancelled, and a
\* cancelRetry() directly followed by continueRetry() leaves the retryer as
\* it was before the two calls.
C12_Original ==
    [][/\ ToggleOnly
       /\ (last = "cancelRetry" /\ last' = "continueRetry") =>
            isRetryCancelled' = prevFlag]_vars

\* C12 amended: the same, the pair being promised to restore the earlier
\* state only when retries were not already cancelled before cancelRetry().
C12_ToggleOnlyFlipsFlag ==
    [][/\ ToggleOnly
       /\ (last = "cancelRetry" /\ last' = "continueRetry" /\ ~prevFlag) =>
            (isRetryCancelled' = prevFlag /\ UNCHANGED toggleFrame)]_vars

\* cancelRetry() called on a clear flag while a retry attempt is in flight
C12_Witness ==
    /\ last = "cancelRetry"
    /\ ~prevFlag
    /\ isRetryCancelled
    /\ pc = "fn"
    /\ failureCount >= 1
    /\ ~isResolved
    /\ abortCalls = 0

\* what is outstanding: an invocation of config.fn, a sleep() timer, a pause
\* whose reaction has not run yet
InFlight == pc = "fn"

DelayPending == pc = "sleep"

WindowOpen == continueFn \/ pc \in Paused \/ pc \in Closing

\* C13: at most one of an in-flight attempt, a pending delay wait and an
\* open pause wait is outstanding, and an attempt starts only from a state
\* in which none of them is.
C13_OneOutstanding ==
    /\ ~(InFlight /\ WindowOpen)
    /\ [][/\ ~(InFlight' /\ DelayPending')
          /\ ~(InFlight' /\ WindowOpen')
          /\ ~(DelayPending' /\ WindowOpen')
          /\ attempts' # attempts =>
                /\ attempts' = attempts + 1
                /\ ~InFlight /\ ~DelayPending /\ ~WindowOpen
                /\ InFlight']_vars

\* the third attempt in flight after two delay waits and a pause window
C13_Witness ==
    /\ pc = "fn"
    /\ attempts = 3
    /\ failureCount = 2
    /\ winContinueCalls = 1
    /\ ~continueFn
    /\ ~isResolved

C15_FailureCount ==
    /\ failureCount = 0
    /\ [][/\ failureCount' # failureCount =>
               /\ failureCount' = failureCount + 1
               /\ pc = "fn" /\ pc' = "sleep"
               /\ ~isResolved /\ ~isResolved'
               /\ onFailLog' = Append(onFailLog, failureCount')
          /\ (pc = "fn" /\ pc' = "sleep") => failureCount' = failureCount + 1
          /\ onFailLog' # onFailLog <=> failureCount' # failureCount
          /\ isResolved' => failureCount' = failureCount
          /\ RetryNumber >= 0 => failureCount' <= RetryNumber
          /\ attempts' <= failureCount' + 1]_vars

\* retry: 1 exhausted: one retry decision, then the terminal failure
C15_Witness ==
    /\ retry = [kind |-> "number", val |-> 1]
    /\ promise = [status |-> "rejected", value |-> WorkError(2)]
    /\ failureCount = 1
    /\ onFailLog = <<1>>
    /\ attempts = 2
    /\ ~isRetryCancelled

\* C16 as stated: when an attempt fails while isRetryCancelled is true the
\* future is rejected with that attempt's error, failureCount and onFail
\* are left alone and no delay wait or further attempt follows.
C16_Original ==
    [][(FnFail /\ isRetryCancelled) =>
          /\ promise' = [status |-> "rejected", value |-> WorkError(attempts)]
          /\ failureCount' = failureCount
          /\ onFailLog' = onFailLog
          /\ attempts' = attempts
          /\ pc' = "done"]_vars

\* C16 amended: the same, the rejection with the attempt's error being
\* promised only when the retryer has not been settled (by cancel()) before
\* the attempt fails.
C16_CancelledRetryRejects ==
    [][(FnFail /\ isRetryCancelled) =>
          /\ failureCount' = failureCount
          /\ onFailLog' = onFailLog
          /\ attempts' = attempts
          /\ pc' = "done"
          /\ isResolved => promise' = promise
          /\ ~isResolved =>
                /\ promise' = [status |-> "rejected",
                                value |-> WorkError(attempts)]
                /\ onErrorLog' = <<WorkError(attempts)>>]_vars

\* retry: true, second attempt failed while retries were cancelled
C16_Witness ==
    /\ retry = [kind |-> "boolean", val |-> 1]
    /\ promise = [status |-> "rejected", value |-> WorkError(2)]
    /\ attempts = 2
    /\ failureCount = 1
    /\ onFailLog = <<1>>
    /\ isRetryCancelled
    /\ pc = "done"

\* C17: continue() called when no pause window is open (before any pause,
\* during an attempt or a delay wait, or after an earlier continue() has
\* closed the window) calls neither onPause nor onContinue, starts no
\* attempt and changes no state of the retryer.
C17_ContinueIdempotent ==
    [][(last' = "continue" /\ pc \notin Paused) =>
          /\ winPauseCalls' = winPauseCalls
          /\ winContinueCalls' = winContinueCalls
          /\ attempts' = attempts
          /\ UNCHANGED <<pc, continueFn, isResolved, isRetryCancelled,
                         failureCount, promise, onSuccessLog, onErrorLog,
                         onFailLog, abortCalls>>]_vars

\* C18: settling while a pause window is open closes that window and its
\* reaction does not call onContinue; a settled retryer has no pending pause
\* and never creates a continuation.
C18_NoWaiterAfterSettle ==
    /\ isResolved => pc \notin Paused
    /\ [][/\ (~isResolved /\ isResolved' /\ pc \in Paused) => pc' \in Closing
          /\ (isResolved /\ pc \in Closing) =>
               winContinueCalls' = winContinueCalls
          /\ isResolved' => pc' \notin Paused
          /\ isResolved => ~(continueFn' /\ ~continueFn)]_vars

\* C19: after settlement config.fn is never invoked and none of onFail,
\* onPause, onContinue, onSuccess, onError is called, whatever jobs, gate
\* changes and control operations follow.
C19_QuietAfterSettle ==
    [][isResolved =>
          /\ attempts' = attempts
          /\ onFailLog' = onFailLog
          /\ winPauseCalls' # winPauseCalls + 1
          /\ winContinueCalls' # winContinueCalls + 1
          /\ onSuccessLog' = onSuccessLog
          /\ onErrorLog' = onErrorLog
          /\ failureCount' = failureCount]_vars

\* cancelled during the first delay wait; the delay elapsed and the chain
\* ran to its end without a second attempt
C19_Witness ==
    /\ isCancelledError(promise.value)
    /\ pc = "done"
    /\ failureCount = 1
    /\ attempts = 1
    /\ onFailLog = <<1>>
    /\ ~isRetryCancelled

\* C20: with a numeric retry policy n, when every attempt completes, every
\* delay elapses and every open pause window is closed (by a continue() that
\* finds shouldPause() false), the promise is eventually settled, and no more
\* than n + 1 attempts are made; a paused retryer is settled by cancel() only
\* and leaves the pause only by cancel() or by such a continue().
C20_Settles ==
    /\ (RetryNumber >= 0 /\ [](pc \in Paused => <>(pc \notin Paused)))
          => <>isResolved
    /\ [](RetryNumber >= 0 => attempts <= RetryNumber + 1)
    /\ [][(pc \in Paused /\ ~isResolved) =>
            /\ isResolved' => last' = "cancel"
            /\ pc' \notin Paused =>
                  \/ last' = "cancel"
                  \/ last' = "continue" /\ ~shouldPause]_vars

\* rejected by the last allowed attempt after a pause that a continue() closed
C20_Witness ==
    /\ retry.kind = "number"
    /\ attempts = retry.val + 1
    /\ attempts > 1
    /\ promise = [status |-> "rejected", value |-> WorkError(attempts)]
    /\ winContinueCalls = 1
    /\ last = "none"

====
